---- MODULE Spec2Model ----
(***************************************************************************)
(* A model of shred.py (hdfs-shred): the client, worker and shredder       *)
(* workflows acting on the job store (an HDFS directory tree), the lease   *)
(* store (ZooKeeper) and the local file systems of the data nodes.         *)
(*                                                                         *)
(* The workflows are modelled as they behave when called with a well       *)
(* formed argument object; every HDFS, ZooKeeper and local file system     *)
(* call of a workflow is one step, so that invocations on different data   *)
(* nodes interleave call by call and an invocation may be killed between   *)
(* any two calls.                                                          *)
(***************************************************************************)
EXTENDS Integers, Sequences, FiniteSets, TLC

\* ------------------------------------------------------------- bounds
NumNodes == 2
MaxJobs == 2
NumBlocks == 1
\* the jobs submitted in the specifications of a single job
SoloJobs == 1
\* the most files of one name that find meets in the data directories of a node
MaxCopies == 2

Nodes == 1..NumNodes
Jobs == 1..MaxJobs
Solo == 1..SoloJobs
\* the blocks of the target of job j
BlockId(j, k) == (j - 1) * NumBlocks + k
BlocksOf(j) == {BlockId(j, k) : k \in 1..NumBlocks}
Blocks == UNION {BlocksOf(j) : j \in Jobs}

\* ------------------------------------------------------------- statuses
Canonical ==
  << "stage1init", "stage1ingest", "stage1ingestComplete", "stage1complete",
     "stage2prepareBlocklist", "stage2copyblocks", "stage2readyForDelete",
     "stage2filesDeleted", "stage2complete", "stage3shredding", "stage3complete" >>

NoFile == "none"

\* position of a status token in the canonical sequence, 0 for a missing file
Rank(s) == IF s = NoFile THEN 0 ELSE CHOOSE i \in 1..Len(Canonical) : Canonical[i] = s

BlockStates == << "new", "finding", "linking", "linked", "shredding", "shredded" >>

BlockRank(s) == CHOOSE i \in 1..Len(BlockStates) : BlockStates[i] = s

NoWorker == 0
NoJob == 0

Min(S) == CHOOSE x \in S : \A y \in S : x <= y

\* the empty dict {}
EmptyDict == << >>

\* the elements of a set in ascending order, and the elements of a list
RECURSIVE SeqOf(_)
SeqOf(S) == IF S = {} THEN << >> ELSE << Min(S) >> \o SeqOf(S \ {Min(S)})

Range(f) == {f[i] : i \in DOMAIN f}

VARIABLES
  master,       \* master[j]: content of {root}/jobs/{j}, NoFile when missing
  data,         \* data[j]: content of {root}/store/{j}/status
  payload,      \* payload[j]: "absent" | "dir" | "ingested", {root}/store/{j}/data
  wl,           \* wl[j]: the worklist files of job j, node -> (block -> state)
  replication,  \* the replication factor of the targets (dfs.replication)
  leaseNode,    \* leaseNode[j]: a znode exists at ZOOKEEPER['PATH'] + j
  leaseHolder,  \* leaseHolder[j]: holder of the unexpired lease, or NoWorker
  blockFiles,   \* blockFiles[n][b]: files named b in the DFS data dirs of n
  shredLinks,   \* shredLinks[n]: the hardlinks in the .shred directory of n
  cpc,          \* cpc[j]: position of the client invocation that creates job j
  wpc,          \* wpc[n]: position of the worker invocation on node n
  worklist,     \* worklist[n]: the jobs listed as stage1complete (line 415)
  jobq,         \* jobq[n]: the jobs the current loop has still to visit
  cur,          \* cur[n]: the job being handled
  tasklist,     \* tasklist[n]: job -> worklist read by this invocation
  blkq,         \* blkq[n]: blocks of the current job still to visit
  killed,       \* a worker invocation was killed (specification of one kill)
  prepWriters,  \* history: workers that wrote master=stage2prepareBlocklist
  attempted,    \* history: jobs this invocation called prepare_blocklists for
  searched,     \* history: blocks this invocation ran find for
  undisturbed,  \* history: no other agent has acted since this invocation began
  soloRuns,     \* history: invocations of n run to their end, one after the
                \* other, with no step of another agent since the first began
  soloSnap      \* history: the stores at the end of the first of these

jobStore == << master, data, payload, wl >>
inputs == << replication >>
leaseStore == << leaseNode, leaseHolder >>
localFs == << blockFiles, shredLinks >>
workerLocals == << wpc, worklist, jobq, cur, tasklist, blkq, attempted, searched >>
vars == << master, data, payload, wl, replication, leaseNode, leaseHolder,
           blockFiles, shredLinks, cpc, wpc, worklist, jobq, cur, tasklist, blkq,
           killed, prepWriters, attempted, searched, undisturbed, soloRuns, soloSnap >>

\* ------------------------------------------------------------- history
NoSnap == << >>

\* Book-keeping of the step of an agent: a is the data node of a worker step,
\* NoWorker for a step of a client or of the lease store; returns tells that the
\* step ends the worker invocation by return. The step of an agent disturbs
\* the invocations of every other data node.
Track(a, returns) ==
  /\ undisturbed' = [n \in Nodes |-> n = a /\ (wpc[n] = "idle" \/ undisturbed[n])]
  /\ soloRuns' = [n \in Nodes |->
       IF n # a THEN 0
       ELSE IF returns THEN (IF undisturbed[n] THEN Min({soloRuns[n] + 1, 2}) ELSE 0)
       ELSE IF wpc'[n] = "idle" THEN 0
       ELSE soloRuns[n]]
  /\ soloSnap' = [n \in Nodes |->
       IF soloRuns'[n] = 0 THEN NoSnap
       ELSE IF soloRuns[n] = 0 THEN << master', data', payload', wl', shredLinks' >>
       ELSE soloSnap[n]]

\* ------------------------------------------------------------- set_status
\* set_status(job_id, "master", status): overwrite {root}/jobs/{job_id}
SetMaster(j, s) == master' = [master EXCEPT ![j] = s]

\* set_status(job_id, "data", status): overwrite {root}/store/{job_id}/status
SetData(j, s) == data' = [data EXCEPT ![j] = s]

\* ------------------------------------------------------------- block placement
\* the data nodes holding a replica of block b: the name node places the
\* replicas of successive blocks on successive data nodes
Replicas(b) == {((b - 1 + i) % NumNodes) + 1 : i \in 0..(replication - 1)}

\* ------------------------------------------------------------- Init
InitStores ==
  /\ master = [j \in Jobs |-> NoFile]
  /\ data = [j \in Jobs |-> NoFile]
  /\ payload = [j \in Jobs |-> "absent"]
  /\ wl = [j \in Jobs |-> EmptyDict]
  /\ leaseHolder = [j \in Jobs |-> NoWorker]
  /\ shredLinks = [n \in Nodes |-> {}]
  /\ cpc = [j \in Jobs |-> "start"]
  /\ wpc = [n \in Nodes |-> "idle"]
  /\ worklist = [n \in Nodes |-> {}]
  /\ jobq = [n \in Nodes |-> {}]
  /\ cur = [n \in Nodes |-> NoJob]
  /\ tasklist = [n \in Nodes |-> EmptyDict]
  /\ blkq = [n \in Nodes |-> {}]
  /\ killed = FALSE
  /\ prepWriters = [j \in Jobs |-> {}]
  /\ attempted = [n \in Nodes |-> {}]
  /\ searched = [n \in Nodes |-> {}]
  /\ undisturbed = [n \in Nodes |-> FALSE]
  /\ soloRuns = [n \in Nodes |-> 0]
  /\ soloSnap = [n \in Nodes |-> NoSnap]

\* the files named b in the data directories: copies on every data node that
\* holds a replica of b, none elsewhere
Placed(copies) ==
  blockFiles = [n \in Nodes |-> [b \in Blocks |-> IF n \in Replicas(b) THEN copies ELSE 0]]

\* one job is submitted; a lease node may be left from an earlier lease on its
\* path, and a block file may be missing from, or be met twice in, the data
\* directories (a replica moved away, a copy left behind)
Init ==
  /\ InitStores
  /\ replication \in 1..NumNodes
  /\ leaseNode \in {f \in [Jobs -> BOOLEAN] : \A j \in Jobs \ Solo : ~f[j]}
  /\ \E copies \in 0..MaxCopies : Placed(copies)

\* ------------------------------------------------------------- client
clientFrame == << wl, inputs, killed, leaseStore, localFs, workerLocals, prepWriters >>

\* init_new_job, line 167: master=stage1init
InitNewJobMaster(j) ==
  /\ cpc[j] = "start"
  /\ SetMaster(j, "stage1init")
  /\ cpc' = [cpc EXCEPT ![j] = "init_data"]
  /\ UNCHANGED << data, payload, clientFrame >>
  /\ Track(NoWorker, FALSE)

\* init_new_job, line 170: data=stage1init
InitNewJobData(j) ==
  /\ cpc[j] = "init_data"
  /\ SetData(j, "stage1init")
  /\ cpc' = [cpc EXCEPT ![j] = "ingest_master"]
  /\ UNCHANGED << master, payload, clientFrame >>
  /\ Track(NoWorker, FALSE)

\* ingest_targets, line 180: master=stage1ingest
IngestMaster(j) ==
  /\ cpc[j] = "ingest_master"
  /\ SetMaster(j, "stage1ingest")
  /\ cpc' = [cpc EXCEPT ![j] = "ingest_data"]
  /\ UNCHANGED << data, payload, clientFrame >>
  /\ Track(NoWorker, FALSE)

\* ingest_targets, line 182: data=stage1ingest
IngestData(j) ==
  /\ cpc[j] = "ingest_data"
  /\ SetData(j, "stage1ingest")
  /\ cpc' = [cpc EXCEPT ![j] = "makedirs"]
  /\ UNCHANGED << master, payload, clientFrame >>
  /\ Track(NoWorker, FALSE)

\* ingest_targets, line 188: hdfs.makedirs({root}/store/{j}/data)
IngestMakedirs(j) ==
  /\ cpc[j] = "makedirs"
  /\ payload' = [payload EXCEPT ![j] = "dir"]
  /\ cpc' = [cpc EXCEPT ![j] = "rename"]
  /\ UNCHANGED << master, data, clientFrame >>
  /\ Track(NoWorker, FALSE)

\* IngestRename with the error of a refused rename swallowed: the client goes
\* on to write its statuses over an empty data directory
IngestRename_ErrorSwallowed(j) ==
  /\ cpc[j] = "rename"
  /\ \E canRename \in BOOLEAN :
       payload' = [payload EXCEPT ![j] = IF canRename THEN "ingested" ELSE @]
  /\ cpc' = [cpc EXCEPT ![j] = "ingest_complete"]
  /\ UNCHANGED << master, data, clientFrame >>
  /\ Track(NoWorker, FALSE)

\* ingest_targets, line 189: hdfs.rename(target, path). When the invoking user
\* may not rename the target the call raises HdfsError, which propagates out
\* of client_workflow: nothing catches it
IngestRename(j) ==
  /\ cpc[j] = "rename"
  /\ \E canRename \in BOOLEAN :
       IF canRename
         THEN /\ payload' = [payload EXCEPT ![j] = "ingested"]
              /\ cpc' = [cpc EXCEPT ![j] = "ingest_complete"]
         ELSE /\ payload' = payload
              /\ cpc' = [cpc EXCEPT ![j] = "failed"]
  /\ UNCHANGED << master, data, clientFrame >>
  /\ Track(NoWorker, FALSE)

\* ingest_targets, line 192: data=stage1ingestComplete
IngestComplete(j) ==
  /\ cpc[j] = "ingest_complete"
  /\ SetData(j, "stage1ingestComplete")
  /\ cpc' = [cpc EXCEPT ![j] = "finalise"]
  /\ UNCHANGED << master, payload, clientFrame >>
  /\ Track(NoWorker, FALSE)

\* finalise_client, line 199: master=stage1complete, then exit(0)
FinaliseClient(j) ==
  /\ cpc[j] = "finalise"
  /\ SetMaster(j, "stage1complete")
  /\ cpc' = [cpc EXCEPT ![j] = "done"]
  /\ UNCHANGED << data, payload, clientFrame >>
  /\ Track(NoWorker, FALSE)

\* the client process is killed between two calls
ClientCrash(j) ==
  /\ cpc[j] \notin {"start", "done", "failed", "crashed"}
  /\ cpc' = [cpc EXCEPT ![j] = "crashed"]
  /\ UNCHANGED << jobStore, clientFrame >>
  /\ Track(NoWorker, FALSE)

ClientStep(j) ==
  \/ InitNewJobMaster(j)
  \/ InitNewJobData(j)
  \/ IngestMaster(j)
  \/ IngestData(j)
  \/ IngestMakedirs(j)
  \/ IngestRename(j)
  \/ IngestComplete(j)
  \/ FinaliseClient(j)


\* ------------------------------------------------------------- job listing
\* hdfs.content(job_path, strict=False): None until set_status has written the
\* first file under {root}/jobs/ (nothing removes the directory or a file of it)
JobDirExists == \E j \in Jobs : master[j] # NoFile

\* lines 224-231: read every file of the listing and append its name when it
\* holds the target status
RECURSIVE ScanJobs(_, _, _)
ScanJobs(dirlist, target_status, worker_job_list) ==
  IF dirlist = << >> THEN worker_job_list
  ELSE ScanJobs(Tail(dirlist), target_status,
         IF master[Head(dirlist)] = target_status
           THEN Append(worker_job_list, Head(dirlist))
           ELSE worker_job_list)

\* JobList appending the name of every file of the listing, whatever it holds
JobList_IgnoresStatus(target_status) ==
  IF JobDirExists
    THEN SeqOf({j \in Jobs : master[j] # NoFile})
    ELSE << >>

\* get_jobs_by_status as a list: empty when {root}/jobs/ does not exist,
\* otherwise the scan of hdfs.list(job_path), the names of the job files
JobList(target_status) ==
  IF JobDirExists
    THEN ScanJobs(SeqOf({j \in Jobs : master[j] # NoFile}), target_status, << >>)
    ELSE << >>

\* the jobs of the list returned by get_jobs_by_status
GetJobsByStatus(s) == Range(JobList(s))

\* ------------------------------------------------------------- block report
\* get_fsck_output: a header line, then one line per block of the target, each
\* with the DatanodeInfoWithStorage entries of the block's replicas
GetFsckOutput(j) ==
  << [digit |-> FALSE, blk |-> 0, dns |-> << >>] >> \o
  [k \in 1..NumBlocks |->
     [digit |-> TRUE, blk |-> BlockId(j, k), dns |-> SeqOf(Replicas(BlockId(j, k)))]]

\* lines 274-278: append the block to the list of every data node of the line
RECURSIVE AppendBlock(_, _, _)
AppendBlock(output, dns, b) ==
  IF dns = << >> THEN output
  ELSE LET dn == Head(dns)
           out1 == IF dn \in DOMAIN output
                     THEN [output EXCEPT ![dn] = Append(@, b)]
                     ELSE output @@ (dn :> << b >>)
       IN AppendBlock(out1, Tail(dns), b)

\* parse_blocks_from_fsck: data node -> list of block ids; lines that do not
\* start with a digit are skipped
RECURSIVE ParseBlocksFromFsck(_, _)
ParseBlocksFromFsck(lines, output) ==
  IF lines = << >> THEN output
  ELSE LET line == Head(lines)
       IN ParseBlocksFromFsck(Tail(lines),
            IF line.digit THEN AppendBlock(output, line.dns, line.blk) ELSE output)

\* lines 308-315: the block lists of the targets found under store/{j}/data
Blocklists(j) ==
  IF payload[j] = "ingested" THEN ParseBlocksFromFsck(GetFsckOutput(j), EmptyDict)
  ELSE EmptyDict

\* lines 324-326: every block of the list in state new
NewWorklist(blocks) == [b \in Range(blocks) |-> "new"]

\* ------------------------------------------------------------- lease
\* LeaseObtained with one lease path for all jobs (the job id left out of it)
LeaseObtained_SharedPath(n, j) == \A k \in Jobs : leaseHolder[k] \in {NoWorker, n}

\* zk.NonBlockingLease(path, duration, identifier): obtained when no unexpired
\* lease of another identifier is recorded; the identifier names the worker
LeaseObtained(n, j) == leaseHolder[j] \in {NoWorker, n}

\* the lease duration (WORKER_SLEEP minutes) elapses
LeaseExpire(j) ==
  /\ leaseHolder[j] # NoWorker
  /\ leaseHolder' = [leaseHolder EXCEPT ![j] = NoWorker]
  /\ UNCHANGED << jobStore, inputs, killed, leaseNode, localFs, cpc, workerLocals, prepWriters >>
  /\ Track(NoWorker, FALSE)

\* ------------------------------------------------------------- worker
\* the end of a worker invocation, by return or by kill
Stopped(n) ==
  /\ wpc' = [wpc EXCEPT ![n] = "idle"]
  /\ jobq' = [jobq EXCEPT ![n] = {}]
  /\ cur' = [cur EXCEPT ![n] = NoJob]
  /\ tasklist' = [tasklist EXCEPT ![n] = EmptyDict]
  /\ blkq' = [blkq EXCEPT ![n] = {}]
  /\ worklist' = [worklist EXCEPT ![n] = {}]
  /\ attempted' = [attempted EXCEPT ![n] = {}]
  /\ searched' = [searched EXCEPT ![n] = {}]

\* WorkerStart taking the jobs in stage2copyblocks for discovery again
WorkerStart_RelistsCopyblocks(n) ==
  /\ wpc[n] = "idle"
  /\ LET found == GetJobsByStatus("stage1complete") \cup GetJobsByStatus("stage2copyblocks")
     IN /\ worklist' = [worklist EXCEPT ![n] = found]
        /\ jobq' = [jobq EXCEPT ![n] = found]
        /\ wpc' = [wpc EXCEPT ![n] = IF found # {} THEN "discover" ELSE "list2"]
  /\ attempted' = [attempted EXCEPT ![n] = {}]
  /\ UNCHANGED << jobStore, inputs, killed, leaseStore, localFs, cpc, cur, tasklist, blkq,
                  prepWriters, searched >>
  /\ Track(n, FALSE)

\* lines 415-417: list the stage1complete jobs
WorkerStart(n) ==
  /\ wpc[n] = "idle"
  /\ worklist' = [worklist EXCEPT ![n] = GetJobsByStatus("stage1complete")]
  /\ jobq' = [jobq EXCEPT ![n] = GetJobsByStatus("stage1complete")]
  /\ attempted' = [attempted EXCEPT ![n] = {}]
  /\ wpc' = [wpc EXCEPT ![n] =
       IF GetJobsByStatus("stage1complete") # {} THEN "discover" ELSE "list2"]
  /\ UNCHANGED << jobStore, inputs, killed, leaseStore, localFs, cpc, cur, tasklist, blkq,
                  prepWriters, searched >>
  /\ Track(n, FALSE)

\* lines 422-425 and 290-299: the next job of the list; prepare_blocklists is
\* called when zk.exists finds a node for the job, and asks for the lease
DiscoverJob(n) ==
  /\ wpc[n] = "discover"
  /\ jobq[n] # {}
  /\ LET j == Min(jobq[n]) IN
       /\ jobq' = [jobq EXCEPT ![n] = @ \ {j}]
       /\ IF leaseNode[j]
            THEN /\ attempted' = [attempted EXCEPT ![n] = @ \cup {j}]
                 /\ IF LeaseObtained(n, j)
                      THEN /\ leaseHolder' = [leaseHolder EXCEPT ![j] = n]
                           /\ wpc' = [wpc EXCEPT ![n] = "prepare"]
                           /\ cur' = [cur EXCEPT ![n] = j]
                      ELSE UNCHANGED << leaseHolder, wpc, cur >>
            ELSE UNCHANGED << attempted, searched, leaseHolder, wpc, cur >>
  /\ UNCHANGED << jobStore, inputs, killed, leaseNode, localFs, cpc, worklist, tasklist, blkq,
                  prepWriters, searched >>
  /\ Track(n, FALSE)

\* line 422: the list is exhausted
DiscoverDone(n) ==
  /\ wpc[n] = "discover"
  /\ jobq[n] = {}
  /\ wpc' = [wpc EXCEPT ![n] = "list2"]
  /\ cur' = [cur EXCEPT ![n] = NoJob]
  /\ UNCHANGED << jobStore, inputs, killed, leaseStore, localFs, cpc, worklist, jobq, tasklist,
                  blkq, prepWriters, attempted, searched >>
  /\ Track(n, FALSE)

\* prepare_blocklists, line 306: master=stage2prepareBlocklist
WritePrepare(n) ==
  /\ wpc[n] = "prepare"
  /\ SetMaster(cur[n], "stage2prepareBlocklist")
  /\ prepWriters' = [prepWriters EXCEPT ![cur[n]] = @ \cup {n}]
  /\ wpc' = [wpc EXCEPT ![n] = "blocklists"]
  /\ UNCHANGED << data, payload, wl, inputs, killed, leaseStore, localFs, cpc, worklist, jobq,
                  cur, tasklist, blkq, attempted, searched >>
  /\ Track(n, FALSE)

\* prepare_blocklists, lines 308-331: one worklist file per data node of the
\* block report, written over whatever the file held
WriteBlocklists(n) ==
  /\ wpc[n] = "blocklists"
  /\ payload[cur[n]] # "absent"
  /\ LET lists == Blocklists(cur[n]) IN
       wl' = [wl EXCEPT ![cur[n]] =
                [w \in DOMAIN @ \cup DOMAIN lists |->
                   IF w \in DOMAIN lists THEN NewWorklist(lists[w]) ELSE @[w]]]
  /\ wpc' = [wpc EXCEPT ![n] = "copyblocks"]
  /\ UNCHANGED << master, data, payload, inputs, killed, leaseStore, localFs, cpc, worklist,
                  jobq, cur, tasklist, blkq, prepWriters, attempted, searched >>
  /\ Track(n, FALSE)

\* prepare_blocklists, line 335: master=stage2copyblocks
WriteCopyblocks(n) ==
  /\ wpc[n] = "copyblocks"
  /\ SetMaster(cur[n], "stage2copyblocks")
  /\ wpc' = [wpc EXCEPT ![n] = "discover"]
  /\ UNCHANGED << data, payload, wl, inputs, killed, leaseStore, localFs, cpc, worklist, jobq,
                  cur, tasklist, blkq, prepWriters, attempted, searched >>
  /\ Track(n, FALSE)

\* lines 438-440: list the stage2copyblocks jobs
ListCopyblocks(n) ==
  /\ wpc[n] = "list2"
  /\ IF GetJobsByStatus("stage2copyblocks") # {}
       THEN /\ wpc' = [wpc EXCEPT ![n] = "read"]
            /\ jobq' = [jobq EXCEPT ![n] = GetJobsByStatus("stage2copyblocks")]
            /\ UNCHANGED << cur, tasklist, blkq, worklist, attempted, searched >>
       ELSE Stopped(n)
  /\ UNCHANGED << jobStore, inputs, killed, leaseStore, localFs, cpc, prepWriters >>
  /\ Track(n, GetJobsByStatus("stage2copyblocks") = {})

\* lines 444-458: read the worklist named for this worker; this_job_blocklist
\* starts as {} and stays {} when the file is missing, and {} is not None
ReadWorklist(n) ==
  /\ wpc[n] = "read"
  /\ jobq[n] # {}
  /\ LET j == Min(jobq[n])
         this_job_blocklist == IF n \in DOMAIN wl[j] THEN wl[j][n] ELSE EmptyDict
     IN /\ tasklist' = [tasklist EXCEPT ![n] = @ @@ (j :> this_job_blocklist)]
        /\ jobq' = [jobq EXCEPT ![n] = @ \ {j}]
  /\ UNCHANGED << jobStore, inputs, killed, leaseStore, localFs, cpc, wpc, worklist, cur, blkq,
                  prepWriters, attempted, searched >>
  /\ Track(n, FALSE)

\* lines 460-463: the task list is complete; take its first job
ReadDone(n) ==
  /\ wpc[n] = "read"
  /\ jobq[n] = {}
  /\ wpc' = [wpc EXCEPT ![n] = "blocks"]
  /\ cur' = [cur EXCEPT ![n] = Min(DOMAIN tasklist[n])]
  /\ blkq' = [blkq EXCEPT ![n] = DOMAIN tasklist[n][Min(DOMAIN tasklist[n])]]
  /\ jobq' = [jobq EXCEPT ![n] = DOMAIN tasklist[n] \ {Min(DOMAIN tasklist[n])}]
  /\ UNCHANGED << jobStore, inputs, killed, leaseStore, localFs, cpc, worklist, tasklist,
                  prepWriters, attempted, searched >>
  /\ Track(n, FALSE)

\* line 470-475: find / -name block: the block files and the preserved hardlink
FoundFiles(n, b) == blockFiles[n][b] + (IF b \in shredLinks[n] THEN 1 ELSE 0)

\* ProcessBlock linking the first match when find meets the name more than once
ProcessBlock_LinksFirstMatch(n) ==
  /\ wpc[n] = "blocks"
  /\ blkq[n] # {}
  /\ LET j == cur[n]
         b == Min(blkq[n])
     IN IF tasklist[n][j][b] = "new"
          THEN IF FoundFiles(n, b) >= 1
                 THEN \E raises \in (IF b \in shredLinks[n] THEN {TRUE} ELSE BOOLEAN) :
                        IF raises
                          THEN /\ Stopped(n)
                               /\ UNCHANGED shredLinks
                          ELSE /\ shredLinks' = [shredLinks EXCEPT ![n] = @ \cup {b}]
                               /\ tasklist' = [tasklist EXCEPT ![n][j][b] = "linked"]
                               /\ blkq' = [blkq EXCEPT ![n] = @ \ {b}]
                               /\ searched' = [searched EXCEPT ![n] = @ \cup {b}]
                               /\ UNCHANGED << wpc, jobq, cur, worklist, attempted >>
                 ELSE /\ tasklist' = [tasklist EXCEPT ![n][j][b] = "finding"]
                      /\ blkq' = [blkq EXCEPT ![n] = @ \ {b}]
                      /\ searched' = [searched EXCEPT ![n] = @ \cup {b}]
                      /\ UNCHANGED << wpc, jobq, cur, worklist, attempted, shredLinks >>
          ELSE /\ blkq' = [blkq EXCEPT ![n] = @ \ {b}]
               /\ UNCHANGED << wpc, jobq, cur, worklist, attempted, searched, tasklist,
                               shredLinks >>
  /\ UNCHANGED << jobStore, inputs, killed, leaseStore, blockFiles, cpc, prepWriters >>
  /\ Track(n, FALSE)

\* ProcessBlock with the error of link() swallowed: the block is marked linked
\* whether or not the hardlink was made
ProcessBlock_LinkErrorSwallowed(n) ==
  /\ wpc[n] = "blocks"
  /\ blkq[n] # {}
  /\ LET j == cur[n]
         b == Min(blkq[n])
     IN IF tasklist[n][j][b] = "new"
          THEN IF FoundFiles(n, b) = 1
                 THEN \E raises \in (IF b \in shredLinks[n] THEN {TRUE} ELSE BOOLEAN) :
                        /\ shredLinks' = [shredLinks EXCEPT ![n] =
                                            IF raises THEN @ ELSE @ \cup {b}]
                        /\ tasklist' = [tasklist EXCEPT ![n][j][b] = "linked"]
                        /\ blkq' = [blkq EXCEPT ![n] = @ \ {b}]
                        /\ searched' = [searched EXCEPT ![n] = @ \cup {b}]
                        /\ UNCHANGED << wpc, jobq, cur, worklist, attempted >>
                 ELSE /\ tasklist' = [tasklist EXCEPT ![n][j][b] = "finding"]
                      /\ blkq' = [blkq EXCEPT ![n] = @ \ {b}]
                      /\ searched' = [searched EXCEPT ![n] = @ \cup {b}]
                      /\ UNCHANGED << wpc, jobq, cur, worklist, attempted, shredLinks >>
          ELSE /\ blkq' = [blkq EXCEPT ![n] = @ \ {b}]
               /\ UNCHANGED << wpc, jobq, cur, worklist, attempted, searched, tasklist,
                               shredLinks >>
  /\ UNCHANGED << jobStore, inputs, killed, leaseStore, blockFiles, cpc, prepWriters >>
  /\ Track(n, FALSE)

\* lines 463-495: one block of the current job. A new block is searched for;
\* exactly one match is hardlinked into the .shred directory and becomes
\* linked, any other count leaves it finding. link() raises OSError when the
\* name exists and when the file system refuses the link; nothing catches it
\* and the invocation ends. Blocks in any other state are passed over.
ProcessBlock(n) ==
  /\ wpc[n] = "blocks"
  /\ blkq[n] # {}
  /\ LET j == cur[n]
         b == Min(blkq[n])
     IN IF tasklist[n][j][b] = "new"
          THEN IF FoundFiles(n, b) = 1
                 THEN \E raises \in (IF b \in shredLinks[n] THEN {TRUE} ELSE BOOLEAN) :
                        IF raises
                          THEN /\ Stopped(n)
                               /\ UNCHANGED shredLinks
                          ELSE /\ shredLinks' = [shredLinks EXCEPT ![n] = @ \cup {b}]
                               /\ tasklist' = [tasklist EXCEPT ![n][j][b] = "linked"]
                               /\ blkq' = [blkq EXCEPT ![n] = @ \ {b}]
                               /\ searched' = [searched EXCEPT ![n] = @ \cup {b}]
                               /\ UNCHANGED << wpc, jobq, cur, worklist, attempted >>
                 ELSE /\ tasklist' = [tasklist EXCEPT ![n][j][b] = "finding"]
                      /\ blkq' = [blkq EXCEPT ![n] = @ \ {b}]
                      /\ searched' = [searched EXCEPT ![n] = @ \cup {b}]
                      /\ UNCHANGED << wpc, jobq, cur, worklist, attempted, shredLinks >>
          ELSE /\ blkq' = [blkq EXCEPT ![n] = @ \ {b}]
               /\ UNCHANGED << wpc, jobq, cur, worklist, attempted, searched, tasklist,
                               shredLinks >>
  /\ UNCHANGED << jobStore, inputs, killed, leaseStore, blockFiles, cpc, prepWriters >>
  /\ Track(n, FALSE)

\* WriteWorklist with one identity on every data node (the address that
\* get_worker_identity resolves is the same everywhere)
WriteWorklist_UnderOneIdentity(n) ==
  /\ wpc[n] = "blocks"
  /\ blkq[n] = {}
  /\ wl' = [wl EXCEPT ![cur[n]] =
              [w \in DOMAIN @ \cup {Min(Nodes)} |->
                 IF w = Min(Nodes) THEN tasklist[n][cur[n]] ELSE @[w]]]
  /\ IF jobq[n] = {}
       THEN Stopped(n)
       ELSE /\ cur' = [cur EXCEPT ![n] = Min(jobq[n])]
            /\ blkq' = [blkq EXCEPT ![n] = DOMAIN tasklist[n][Min(jobq[n])]]
            /\ jobq' = [jobq EXCEPT ![n] = @ \ {Min(jobq[n])}]
            /\ UNCHANGED << wpc, tasklist, worklist, attempted, searched >>
  /\ UNCHANGED << master, data, payload, inputs, killed, leaseStore, localFs, cpc, prepWriters >>
  /\ Track(n, jobq[n] = {})

\* lines 497-499: overwrite the worklist file of the current job with the task
\* list, then go on to the next job or return
WriteWorklist(n) ==
  /\ wpc[n] = "blocks"
  /\ blkq[n] = {}
  /\ wl' = [wl EXCEPT ![cur[n]] =
              [w \in DOMAIN @ \cup {n} |-> IF w = n THEN tasklist[n][cur[n]] ELSE @[w]]]
  /\ IF jobq[n] = {}
       THEN Stopped(n)
       ELSE /\ cur' = [cur EXCEPT ![n] = Min(jobq[n])]
            /\ blkq' = [blkq EXCEPT ![n] = DOMAIN tasklist[n][Min(jobq[n])]]
            /\ jobq' = [jobq EXCEPT ![n] = @ \ {Min(jobq[n])}]
            /\ UNCHANGED << wpc, tasklist, worklist, attempted, searched >>
  /\ UNCHANGED << master, data, payload, inputs, killed, leaseStore, localFs, cpc, prepWriters >>
  /\ Track(n, jobq[n] = {})

\* the worker process is killed between two calls, or an HdfsError of
\* hdfs.list on a missing data directory ends it
WorkerCrash(n) ==
  /\ wpc[n] # "idle"
  /\ Stopped(n)
  /\ UNCHANGED << jobStore, inputs, killed, leaseStore, localFs, cpc, prepWriters >>
  /\ Track(n, FALSE)

\* the same kill, allowed once in a behaviour
WorkerKilledOnce(n) ==
  /\ ~killed
  /\ wpc[n] # "idle"
  /\ killed' = TRUE
  /\ Stopped(n)
  /\ UNCHANGED << jobStore, inputs, leaseStore, localFs, cpc, prepWriters >>
  /\ Track(n, FALSE)

WorkerStep(n) ==
  \/ WorkerStart(n)
  \/ DiscoverJob(n)
  \/ DiscoverDone(n)
  \/ WritePrepare(n)
  \/ WriteBlocklists(n)
  \/ WriteCopyblocks(n)
  \/ ListCopyblocks(n)
  \/ ReadWorklist(n)
  \/ ReadDone(n)
  \/ ProcessBlock(n)
  \/ WriteWorklist(n)

\* shredder_workflow, lines 517-529: the body is pass
ShredderWorkflow(n) ==
  /\ UNCHANGED vars

Next ==
  \/ \E j \in Solo : ClientStep(j)
  \/ \E j \in Solo : ClientCrash(j)
  \/ \E n \in Nodes : WorkerStep(n)
  \/ \E n \in Nodes : WorkerCrash(n)
  \/ \E n \in Nodes : ShredderWorkflow(n)
  \/ \E j \in Jobs : LeaseExpire(j)

Spec == Init /\ [][Next]_vars

\* The agents are run by a scheduler on every data node again and again, a
\* started invocation goes on to its next call, and time passes; a kill is
\* never bound to happen.
Fairness ==
  /\ \A j \in Solo : WF_vars(ClientStep(j))
  /\ \A n \in Nodes : WF_vars(WorkerStep(n))
  /\ \A j \in Jobs : WF_vars(LeaseExpire(j))

\* the behaviours in which the clients run to their end and at most one
\* worker invocation is killed
FairNext ==
  \/ \E j \in Solo : ClientStep(j)
  \/ \E n \in Nodes : WorkerStep(n)
  \/ \E n \in Nodes : WorkerKilledOnce(n)
  \/ \E n \in Nodes : ShredderWorkflow(n)
  \/ \E j \in Jobs : LeaseExpire(j)

FairSpec == Init /\ [][FairNext]_vars /\ Fairness

\* the same behaviours, without the assumptions on scheduling
OneKillSpec == Init /\ [][FairNext]_vars

\* Two jobs are submitted, each with a lease node on its path and every block
\* file in place; no process is killed and no lease runs out
JobsInit ==
  /\ InitStores
  /\ replication \in 1..NumNodes
  /\ leaseNode = [j \in Jobs |-> TRUE]
  /\ Placed(1)

JobsNext ==
  \/ \E j \in Jobs : ClientStep(j)
  \/ \E n \in Nodes : WorkerStep(n)
  \/ \E n \in Nodes : ShredderWorkflow(n)

JobsSpec == JobsInit /\ [][JobsNext]_vars

\* ------------------------------------------------------------- properties
\* the worker n is inside the leader part of prepare_blocklists for job j
Leading(n, j) == wpc[n] \in {"prepare", "blocklists", "copyblocks"} /\ cur[n] = j

\* the data nodes that hold a replica of a block of the target of job j
Participants(j) == UNION {Replicas(b) : b \in BlocksOf(j)}

\* the step is one of the worker invocation on data node n
Acting(n) ==
  \/ wpc'[n] # wpc[n]
  \/ jobq'[n] # jobq[n]
  \/ cur'[n] # cur[n]
  \/ blkq'[n] # blkq[n]
  \/ tasklist'[n] # tasklist[n]

\* the step writes the worklist file of job j named for data node w with a
\* content it did not hold
WorklistWritten(j, w) ==
  /\ w \in DOMAIN wl'[j]
  /\ w \notin DOMAIN wl[j] \/ wl'[j][w] # wl[j][w]

\* the block the preserve pass of n handles next
NextBlock(n) == Min(blkq[n])

\* the step is the block handling of lines 464-493 by n, for a block in
\* state new, run to its end
HandlesNewBlock(n) ==
  /\ wpc[n] = "blocks"
  /\ blkq[n] # {}
  /\ tasklist[n][cur[n]][NextBlock(n)] = "new"
  /\ wpc'[n] = "blocks"
  /\ blkq'[n] = blkq[n] \ {NextBlock(n)}

\* the step is the end of the block loop of the current job of n (lines
\* 496-499), the invocation not being killed
EndsBlockLoop(n) ==
  /\ wpc[n] = "blocks"
  /\ blkq[n] = {}
  /\ Acting(n)
  /\ killed' = killed

\* the step is a call of link() by n (line 487) that raises
LinkFails(n) ==
  /\ wpc[n] = "blocks"
  /\ blkq[n] # {}
  /\ tasklist[n][cur[n]][NextBlock(n)] = "new"
  /\ FoundFiles(n, NextBlock(n)) = 1
  /\ Acting(n)
  /\ killed' = killed
  /\ shredLinks'[n] = shredLinks[n]

\* the step is the call of prepare_blocklists for job j by n (line 425)
AttemptsLease(n, j) ==
  /\ wpc[n] = "discover"
  /\ jobq[n] # {}
  /\ Min(jobq[n]) = j
  /\ leaseNode[j]
  /\ jobq'[n] = jobq[n] \ {j}

\* C1: the master status of a job never moves backwards in the canonical
\* sequence (the order part of: the written values, deduplicated, form a prefix
\* of the canonical sequence).
C1_MasterNeverMovesBackwards ==
  [][\A j \in Jobs : Rank(master'[j]) >= Rank(master[j])]_vars

\* C2: at most one worker identity ever writes master=stage2prepareBlocklist
\* for a job.
C2_AtMostOnePrepareWriter ==
  \A j \in Jobs : Cardinality(prepWriters[j]) <= 1

\* C5: once the client run of a job has completed, and with every agent run
\* again and again, the master status of the job reaches stage3complete.
C5_EventuallyStage3Complete ==
  \A j \in Jobs : (cpc[j] = "done") ~> (master[j] = "stage3complete")

\* C6: a worker invocation that has gone through its list of stage1complete
\* jobs has asked for the lease of every job of the list, whether or not a
\* lease node existed for the job.
C6_LeaseAttemptedForEveryListedJob ==
  \A n \in Nodes : wpc[n] = "list2" => worklist[n] \subseteq attempted[n]

\* C7: a job left in stage2prepareBlocklist by a leader that was killed (no
\* worker is inside the leader pass any more) reaches stage2copyblocks.
C7_CrashedDiscoveryIsRedone ==
  \A j \in Jobs :
    (master[j] = "stage2prepareBlocklist" /\ \A n \in Nodes : ~Leading(n, j))
      ~> (master[j] = "stage2copyblocks")

\* C8: while a job is in stage2copyblocks its worklist files are exactly those
\* of the data nodes that hold a replica of a block of the target.
C8_WorklistsExactlyParticipants ==
  \A j \in Jobs : master[j] = "stage2copyblocks" => DOMAIN wl[j] = Participants(j)

\* C9: a client invocation whose rename failed leaves no master status file
\* and nothing under the job's store directory.
C9_FailedRenameLeavesNoJob ==
  \A j \in Jobs :
    cpc[j] = "failed" => master[j] = NoFile /\ data[j] = NoFile /\ payload[j] = "absent"

\* C10: whenever the master status of a job is stage1complete or later, the
\* target has been renamed into the job's data directory and the data status
\* reads stage1ingestComplete.
C10_CompleteImpliesIngested ==
  \A j \in Jobs :
    Rank(master[j]) >= Rank("stage1complete")
      => payload[j] = "ingested" /\ data[j] = "stage1ingestComplete"

\* C10 witness: a client has run to its end and left master=stage1complete
C10_ClientDone ==
  \E j \in Jobs : cpc[j] = "done" /\ master[j] = "stage1complete"

\* C11: of two workers that went through the discovery pass of the same
\* stage1complete job at the same time (both have the job on their list and
\* have finished the loop over it), exactly one wrote
\* master=stage2prepareBlocklist, and the job is in stage2copyblocks; the
\* other wrote no master status.
C11_ExactlyOneOfTwoLeads ==
  \A j \in Jobs : \A n, m \in Nodes :
    (n # m /\ wpc[n] = "list2" /\ wpc[m] = "list2"
       /\ j \in worklist[n] /\ j \in worklist[m])
      => /\ Cardinality(prepWriters[j] \cap {n, m}) = 1
         /\ master[j] = "stage2copyblocks"

\* C12: every write of the worklist file {root}/store/{j}/{w} is a step of the
\* worker on data node w.
C12_OnlyOwnerWrites ==
  [][\A j \in Jobs : \A w \in Nodes : WorklistWritten(j, w) => Acting(w)]_vars

\* C12, amended: every write of the worklist file {root}/store/{j}/{w} is a
\* step of the worker on data node w, or the write of the worklists by a
\* worker inside prepare_blocklists for job j.
C12_OwnerOrLeaderWrites ==
  [][\A j \in Jobs : \A w \in Nodes :
       WorklistWritten(j, w)
         => \/ Acting(w)
            \/ \E n \in Nodes : Leading(n, j) /\ wpc[n] = "blocklists" /\ Acting(n)]_vars

\* C12 witness: a worklist file created by the leader for another data node
\* has been rewritten by the worker it names
C12_OtherNodeRewrote ==
  \E j \in Jobs : \E n, w \in Nodes :
    /\ n # w
    /\ prepWriters[j] = {n}
    /\ w \in DOMAIN wl[j]
    /\ \E b \in DOMAIN wl[j][w] : wl[j][w][b] = "linked"

\* C13: after two worker invocations on one data node run to their end one
\* after the other, no other agent having acted and no lease having run out
\* since the first began, the job store and the preserved-block directories
\* are what they were at the end of the first.
C13_SecondRunChangesNothing ==
  \A n \in Nodes :
    soloRuns[n] = 2 => soloSnap[n] = << master, data, payload, wl, shredLinks >>

\* C13 witness: the second of two such invocations has ended, the first
\* having preserved a block
C13_TwoRunsWithHardlink ==
  \E n \in Nodes : soloRuns[n] = 2 /\ wpc[n] = "idle" /\ shredLinks[n] # {}

\* C14: a failed hardlink for a block does not end the invocation when it has
\* other jobs or other blocks still to handle: the block loop goes on.
C14_FailureDoesNotAbort ==
  [][\A n \in Nodes :
       (LinkFails(n) /\ (jobq[n] # {} \/ blkq[n] # {NextBlock(n)}))
         => wpc'[n] = "blocks"]_vars

\* C15: for distinct jobs j1 and j2, no step that changes the statuses, the
\* data, the worklists, the lease or the client position of j1 changes the
\* master status, the data status or the worklists of j2; and a worker that
\* asks for the lease of j2 when no other worker holds it obtains it, whoever
\* holds the lease of j1.
C15_JobsIndependent ==
  [][\A j1, j2 \in Jobs :
       j1 # j2 =>
         /\ << master[j1], data[j1], payload[j1], wl[j1], leaseHolder[j1], cpc[j1] >>
              # << master'[j1], data'[j1], payload'[j1], wl'[j1], leaseHolder'[j1], cpc'[j1] >>
            => << master'[j2], data'[j2], wl'[j2] >> = << master[j2], data[j2], wl[j2] >>
         /\ \A n \in Nodes :
              (AttemptsLease(n, j2) /\ leaseHolder[j2] \in {NoWorker, n})
                => leaseHolder'[j2] = n]_vars

\* C15 witness: the leases of two jobs are held by different workers
C15_TwoLeasesHeld ==
  \E j1, j2 \in Jobs : \E n, m \in Nodes :
    j1 # j2 /\ n # m /\ leaseHolder[j1] = n /\ leaseHolder[j2] = m /\ Leading(m, j2)

\* C16: for every status s, get_jobs_by_status(s) returns each job whose
\* master file holds s once and no other job, and the empty list when
\* {root}/jobs/ does not exist; the steps that call it record that list and
\* leave the job store unchanged.
C16_ListingExact ==
  /\ [](\A s \in Range(Canonical) :
          /\ Range(JobList(s)) = {j \in Jobs : master[j] = s}
          /\ Len(JobList(s)) = Cardinality({j \in Jobs : master[j] = s})
          /\ ~JobDirExists => JobList(s) = << >>)
  /\ [][\A n \in Nodes :
          /\ (wpc[n] = "idle" /\ wpc'[n] # "idle")
               => /\ worklist'[n] = {j \in Jobs : master[j] = "stage1complete"}
                  /\ UNCHANGED jobStore
          /\ (wpc[n] = "list2" /\ wpc'[n] = "read")
               => /\ jobq'[n] = {j \in Jobs : master[j] = "stage2copyblocks"}
                  /\ UNCHANGED jobStore]_vars

\* C16 witness: a listing has returned a job
C16_JobListed ==
  \E n \in Nodes : wpc[n] = "discover" /\ worklist[n] # {}

\* C17: a step of the preserve pass of a worker, for a job without a worklist
\* file named for the worker, creates no such file, leaves the job's store
\* directory unchanged and creates no hardlink for a block of the job.
C17_NoWorklistMeansSkip ==
  [][\A n \in Nodes : \A j \in Jobs :
       (Acting(n) /\ wpc[n] \in {"read", "blocks"} /\ n \notin DOMAIN wl[j])
         => /\ n \notin DOMAIN wl'[j]
            /\ << data'[j], payload'[j], wl'[j] >> = << data[j], payload[j], wl[j] >>
            /\ shredLinks'[n] \cap BlocksOf(j) = shredLinks[n] \cap BlocksOf(j)]_vars

\* C18: the handling of a block in state new, run to its end, leaves the
\* block linked and its hardlink newly created when find meets exactly one
\* file of the name, and leaves it finding with no hardlink created when find
\* meets none or several; at the end of the block loop the states are written
\* to the worklist file of the worker.
C18_LinkedIffOneMatch ==
  [][\A n \in Nodes :
       /\ HandlesNewBlock(n) =>
            IF FoundFiles(n, NextBlock(n)) = 1
              THEN /\ tasklist'[n][cur[n]][NextBlock(n)] = "linked"
                   /\ NextBlock(n) \notin shredLinks[n]
                   /\ shredLinks'[n] = shredLinks[n] \cup {NextBlock(n)}
              ELSE /\ tasklist'[n][cur[n]][NextBlock(n)] = "finding"
                   /\ shredLinks' = shredLinks
       /\ EndsBlockLoop(n) =>
            /\ n \in DOMAIN wl'[cur[n]]
            /\ wl'[cur[n]][n] = tasklist[n][cur[n]]]_vars

\* C18 witness: a block for which find met no file or several is stored as
\* finding, with no hardlink
C18_FindingWrittenBack ==
  \E j \in Jobs : \E n \in Nodes :
    /\ n \in DOMAIN wl[j]
    /\ \E b \in DOMAIN wl[j][n] :
         wl[j][n][b] = "finding" /\ blockFiles[n][b] # 1 /\ b \notin shredLinks[n]

\* C19: when the block loop of a job has visited every block, each block that
\* is finding has been searched for by this invocation (a block stored as
\* finding is searched for again).
C19_FindingIsSearchedAgain ==
  \A n \in Nodes :
    (wpc[n] = "blocks" /\ blkq[n] = {})
      => \A b \in DOMAIN tasklist[n][cur[n]] :
           tasklist[n][cur[n]][b] = "finding" => b \in searched[n]

\* C20: a worker that writes master=stage2prepareBlocklist or
\* master=stage2copyblocks for a job holds the lease of the job at the write,
\* and no two workers are inside prepare_blocklists for the same job.
C20_MasterWrittenUnderLease ==
  [][/\ \A n \in Nodes : \A j \in Jobs :
          (Leading(n, j) /\ wpc[n] \in {"prepare", "copyblocks"}
             /\ wpc'[n] \notin {wpc[n], "idle"})
            => leaseHolder[j] = n
     /\ \A j \in Jobs : Cardinality({n \in Nodes : Leading(n, j)}) <= 1]_vars

\* the blocks of the target of job j that the name node reports on data node w
HeldBlocks(j, w) == {b \in BlocksOf(j) : w \in Replicas(b)}

\* C21: at the step in which a discovery leader writes master=stage2copyblocks
\* for a job, every data node that holds a replica of a block of the target
\* has a worklist file that maps exactly the blocks it holds, each to new.
C21_WorklistsMatchBlockReport ==
  [][\A n \in Nodes : \A j \in Jobs :
       (Leading(n, j) /\ wpc[n] = "copyblocks" /\ wpc'[n] = "discover")
         => \A w \in Participants(j) :
              /\ w \in DOMAIN wl[j]
              /\ wl[j][w] = [b \in HeldBlocks(j, w) |-> "new"]]_vars

\* C22: no step moves the stored state of a block of a worklist file backwards
\* in the order new, finding, linking, linked, shredding, shredded, or drops
\* the block from the file.
C22_BlockStateNeverRegresses ==
  [][\A j \in Jobs : \A w \in DOMAIN wl[j] : \A b \in DOMAIN wl[j][w] :
       /\ w \in DOMAIN wl'[j]
       /\ b \in DOMAIN wl'[j][w]
       /\ BlockRank(wl'[j][w][b]) >= BlockRank(wl[j][w][b])]_vars

\* C23: a block that the worklist file of a worker records as linked has its
\* hardlink in the .shred directory of that worker's data node.
C23_LinkedImpliesHardlink ==
  \A j \in Jobs : \A w \in DOMAIN wl[j] : \A b \in DOMAIN wl[j][w] :
    wl[j][w][b] = "linked" => b \in shredLinks[w]

\* C23 witness: a worklist file records a block as linked
C23_LinkedStored ==
  \E j \in Jobs : \E w \in DOMAIN wl[j] : \E b \in DOMAIN wl[j][w] :
    wl[j][w][b] = "linked"

\* C24: after the kill of a worker invocation, a block whose hardlink exists
\* on the data node of a worker is never stored as finding in the worklist
\* file of that worker.
C24_KilledAfterLinkNotStuck ==
  \A j \in Jobs : \A w \in DOMAIN wl[j] : \A b \in DOMAIN wl[j][w] :
    (killed /\ b \in shredLinks[w]) => wl[j][w][b] # "finding"
====
